---- MODULE Spec2Model ----
(***************************************************************************)
(* A model of realize: the File resource (src/src/fs.rs), the Reality      *)
(* aggregator (src/src/meta.rs) and the apply orchestrator                 *)
(* (src/src/lib.rs), over a small POSIX-like target file system.           *)
(***************************************************************************)
EXTENDS Integers, Sequences, FiniteSets, TLC

VARIABLES
    resources,   \* Reality.resources: the linked hash map, as its entry list in iteration order
    lastEnsure,  \* the last top-level Reality::ensure call: argument, map before it, warnings it logged
    nEnsure,     \* number of top-level ensure calls made by the configuration procedure
    fs,          \* the target system: real location -> node
    pc,          \* position of apply_inner: "config", "verify", "realize", "done"; "file" when a File is driven directly
    run,         \* which apply run this is (1 or 2)
    calls,       \* aggregator-level calls made by apply_inner in this run, in order
    vlog,        \* members whose verify() Reality::verify invoked in this run, in order
    rlog,        \* members whose realize() Reality::realize invoked in this run, in order
    vres,        \* what Reality::verify returned in this run
    rres,        \* what Reality::realize returned in this run
    fsStart,     \* the target system when this run started
    file,        \* the File resource driven directly
    hist         \* the operations made on `file`, oldest first

vars == <<resources, lastEnsure, nEnsure, fs, pc, run, calls, vlog, rlog, vres, rres,
          fsStart, file, hist>>

aggVars == <<resources, lastEnsure, nEnsure>>
runVars == <<run, calls, vlog, rlog, vres, rres, fsStart>>
fileVars == <<file, hist>>

-----------------------------------------------------------------------------
(* Bounds *)

\* Top-level ensure calls a configuration procedure makes when only the
\* aggregator is exercised.
MaxEnsure == 3

\* Top-level ensure calls the configuration procedure of an apply run makes.
MaxDecl == 2

\* Operations on a File that is driven directly that are remembered: the
\* last HistLen of them.
HistLen == 4

-----------------------------------------------------------------------------
(* Paths: std::path::PathBuf, as a root flag and the list of components *)

Rel(c) == [abs |-> FALSE, comps |-> c]

Abs(c) == [abs |-> TRUE, comps |-> c]

EmptyPath == Rel(<<>>)

Front(s) == SubSeq(s, 1, Len(s) - 1)

\* A parent lookup that stops one level early: a single component has no parent.
parent_StopAtTop(p) ==
    IF Len(p.comps) <= 1 THEN <<>> ELSE << [p EXCEPT !.comps = Front(p.comps)] >>

\* Path::parent: None (the empty sequence) for "" and for "/", else the path
\* without its last component ("a" has the parent "").
parent(p) == IF p.comps = <<>> THEN <<>> ELSE << [p EXCEPT !.comps = Front(p.comps)] >>

\* Paths a configuration declares when only the aggregator is exercised.
AggPaths ==
    { Rel(<<>>), Rel(<<"a">>), Rel(<<"a", "b">>), Rel(<<"a", "b", "c">>),
      Abs(<<"a", "b", "c">>) }

\* Real locations of the target system (absolute, symlink-free); <<>> is "/".
FsPaths == { <<>>, <<"a">>, <<"b">>, <<"a", "b">>, <<"b", "b">> }

\* Paths a File driven against the target system is declared at.
FilePaths == { Rel(c) : c \in FsPaths } \cup { Abs(c) : c \in FsPaths }

\* Paths the configurations of an apply run declare.
ApplyPaths == { Rel(<<"a", "b">>), Abs(<<"b">>) }

\* Symlink targets.
Targets == { Abs(<<"a">>), Abs(<<"b">>) }

-----------------------------------------------------------------------------
(* File declarations: fs.rs, struct File and enum FileType *)

Hello == <<1>>

Hello2 == <<1, 2>>

Contents == { Hello, Hello2 }

\* FileType; contents is an Option: <<>> is None, <<c>> is Some(c).
Absent == [tag |-> "Absent", contents |-> <<>>, target |-> EmptyPath]

RegularFile(c) == [tag |-> "File", contents |-> c, target |-> EmptyPath]

Dir == [tag |-> "Dir", contents |-> <<>>, target |-> EmptyPath]

Symlink(t) == [tag |-> "Symlink", contents |-> <<>>, target |-> t]

FileTypes ==
    { Absent, RegularFile(<<>>), Dir }
        \cup { RegularFile(<<c>>) : c \in Contents }
        \cup { Symlink(t) : t \in Targets }

\* File::at
at(p) == [kind |-> "File", path |-> p, file_type |-> RegularFile(<<>>)]

contains(f, c) == [f EXCEPT !.file_type = RegularFile(<<c>>)]

is_file(f) == [f EXCEPT !.file_type = RegularFile(<<>>)]

is_dir(f) == [f EXCEPT !.file_type = Dir]

points_to(f, t) == [f EXCEPT !.file_type = Symlink(t)]

is_absent(f) == [f EXCEPT !.file_type = Absent]

\* Every File the builder can make at the paths in P.
FilesAt(P) == { [kind |-> "File", path |-> p, file_type |-> t] : p \in P, t \in FileTypes }

\* The Files the configurations of an apply run declare.
ApplyFiles == FilesAt(ApplyPaths)

\* A resource of another type than File (a type of the library's user that
\* implements Resource and UnresolvedResource), with the value v, whose key()
\* is Key::Path(p) as well.
Other(p, v) == [kind |-> "Other", path |-> p, file_type |-> v]

\* The paths and the resources of declarations that mix the two types.
KindPaths == { [abs |-> FALSE, comps |-> <<"a">>], [abs |-> FALSE, comps |-> <<"a", "b">>] }

KindResources == FilesAt(KindPaths) \cup { Other(p, v) : p \in KindPaths, v \in {Absent, Dir} }

\* Resource::key of a File
File_key(f) == [variant |-> "Path", path |-> f.path]

\* util::sha1: the digest of a byte string (distinct strings, distinct digests)
sha1(bytes) == [digest |-> bytes]

\* The first eight characters of a digest's text.
Prefix8(d) == [prefix |-> d.digest]

\* Display of a File: kind, path and, with contents or a target, the detail
\* (the digest prefix, the target); an absent detail is the empty sequence.
File_fmt(f) ==
    [what |-> CASE f.file_type.tag = "Absent" -> "absent"
                [] f.file_type.tag = "File" -> "file"
                [] f.file_type.tag = "Dir" -> "directory"
                [] OTHER -> "symlink",
     path |-> f.path,
     sha1 |-> IF f.file_type.tag = "File" /\ f.file_type.contents # <<>>
              THEN << Prefix8(sha1(f.file_type.contents[1])) >>
              ELSE <<>>,
     target |-> IF f.file_type.tag = "Symlink" THEN << f.file_type.target >> ELSE <<>>]

-----------------------------------------------------------------------------
(* The aggregator: meta.rs, Reality::ensure *)

\* A type id that is the same for every resource type.
TypeIdOf_Erased(r) == "Resource"

\* any::TypeId::of::<R>()
TypeIdOf(r) == r.kind

\* Position of the entry with identity id in the map, 0 when vacant.
EntryIndex(rs, id) ==
    IF \E i \in 1..Len(rs) : rs[i].id = id
    THEN CHOOSE i \in 1..Len(rs) : rs[i].id = id /\ \A j \in 1..(i - 1) : rs[j].id # id
    ELSE 0

RECURSIVE ensure(_, _)

\* A File::implicit_ensure that ensures the parent path with File::at alone,
\* without is_dir().
implicit_ensure_PlainFile(st, r) ==
    IF r.kind # "File" THEN st
    ELSE IF parent(r.path) # <<>> THEN ensure(st, at(parent(r.path)[1]))
    ELSE st

\* UnresolvedResource::implicit_ensure, the default body: no prerequisites.
default_implicit_ensure(st, r) == st

\* resource.implicit_ensure(self). File::implicit_ensure: ensure the parent
\* path as a directory; any other type has the default.
implicit_ensure(st, r) ==
    IF r.kind # "File" THEN default_implicit_ensure(st, r)
    ELSE IF parent(r.path) # <<>> THEN ensure(st, is_dir(at(parent(r.path)[1])))
    ELSE st

\* An entry step that inserts without looking the identity up.
EntryStep_AlwaysInsert(st, r) ==
    [st EXCEPT !.resources = Append(@, [id |-> <<TypeIdOf(r), File_key(r)>>, res |-> r])]

\* An entry step whose conflict branch replaces the stored value (last wins).
EntryStep_LastWins(st, r) ==
    LET key == <<TypeIdOf(r), File_key(r)>>
        i == EntryIndex(st.resources, key)
    IN  IF i # 0
        THEN IF st.resources[i].res # r
             THEN [st EXCEPT !.resources[i].res = r,
                             !.diag = Append(@, [key |-> key[2],
                                                 old |-> File_fmt(st.resources[i].res),
                                                 new |-> File_fmt(r)])]
             ELSE st
        ELSE [st EXCEPT !.resources = Append(@, [id |-> key, res |-> r])]

\* An entry step that, on an occupied entry with an equal value, removes the
\* entry and inserts it again at the end (the behaviour of a plain insert).
EntryStep_Reinsert(st, r) ==
    LET key == <<TypeIdOf(r), File_key(r)>>
        i == EntryIndex(st.resources, key)
    IN  IF i # 0
        THEN IF st.resources[i].res # r
             THEN [st EXCEPT !.diag = Append(@, [key |-> key[2],
                                                 old |-> File_fmt(st.resources[i].res),
                                                 new |-> File_fmt(r)])]
             ELSE [st EXCEPT !.resources =
                      Append(SubSeq(@, 1, i - 1) \o SubSeq(@, i + 1, Len(@)),
                             [id |-> key, res |-> r])]
        ELSE [st EXCEPT !.resources = Append(@, [id |-> key, res |-> r])]

\* An entry step that puts a new entry in front of the stored ones.
EntryStep_Front(st, r) ==
    LET key == <<TypeIdOf(r), File_key(r)>>
        i == EntryIndex(st.resources, key)
    IN  IF i # 0
        THEN IF st.resources[i].res # r
             THEN [st EXCEPT !.diag = Append(@, [key |-> key[2],
                                                 old |-> File_fmt(st.resources[i].res),
                                                 new |-> File_fmt(r)])]
             ELSE st
        ELSE [st EXCEPT !.resources = <<[id |-> key, res |-> r]>> \o @]

\* The map entry step of Reality::ensure, after the prerequisites.
EntryStep(st, r) ==
    LET key == <<TypeIdOf(r), File_key(r)>>
        i == EntryIndex(st.resources, key)
    IN  IF i # 0
        THEN IF st.resources[i].res # r
             THEN [st EXCEPT !.diag = Append(@, [key |-> key[2],
                                                 old |-> File_fmt(st.resources[i].res),
                                                 new |-> File_fmt(r)])]
             ELSE st
        ELSE [st EXCEPT !.resources = Append(@, [id |-> key, res |-> r])]

\* An ensure that registers the resource before its prerequisites.
ensure_EntryFirst(st, r) == implicit_ensure(EntryStep(st, r), r)

\* Reality::ensure on st = [resources, diag]: prerequisites first, then the entry.
ensure(st, r) == EntryStep(implicit_ensure(st, r), r)

NoFile == [kind |-> "File", path |-> EmptyPath, file_type |-> Absent]

NoEnsure == [called |-> FALSE, arg |-> NoFile, before |-> <<>>, diag |-> <<>>]

\* One top-level call reality.ensure(r) made by the configuration procedure.
DoEnsure(r, max) ==
    LET st == ensure([resources |-> resources, diag |-> <<>>], r)
    IN  /\ nEnsure < max
        /\ resources' = st.resources
        /\ lastEnsure' = [called |-> TRUE, arg |-> r, before |-> resources, diag |-> st.diag]
        /\ nEnsure' = nEnsure + 1

\* The configuration procedure declares a File at one of the aggregator paths.
Ensure ==
    /\ pc = "config"
    /\ \E r \in FilesAt(AggPaths) : DoEnsure(r, MaxEnsure)
    /\ UNCHANGED <<fs, pc, runVars, fileVars>>

\* The configuration procedure declares a resource of either type.
EnsureAny ==
    /\ pc = "config"
    /\ \E r \in KindResources : DoEnsure(r, MaxEnsure)
    /\ UNCHANGED <<fs, pc, runVars, fileVars>>

-----------------------------------------------------------------------------
(* The target system: the file system the std::fs and std::path calls act on. *)
(* The working directory is "/", so "a" and "/a" name the same location.      *)

NoneNode == [t |-> "none", data |-> <<>>, readable |-> TRUE, target |-> EmptyPath]

FileNode(d, r) == [t |-> "file", data |-> d, readable |-> r, target |-> EmptyPath]

DirNode == [t |-> "dir", data |-> <<>>, readable |-> TRUE, target |-> EmptyPath]

LinkNode(tg) == [t |-> "link", data |-> <<>>, readable |-> TRUE, target |-> tg]

NodeAt(f, loc) == IF loc \in FsPaths THEN f[loc] ELSE NoneNode

\* Symlinks followed in one lookup before it fails with ELOOP.
HopLimit == Cardinality(FsPaths)

RECURSIVE Walk(_, _, _, _, _)

\* Path lookup from the real directory dir; follow tells whether a symlink in
\* the last component is followed (stat) or returned (lstat). creatable:
\* only the last component is missing, in an existing directory.
Walk(f, dir, comps, follow, hops) ==
    IF comps = <<>>
    THEN [err |-> "ok", loc |-> dir, node |-> NodeAt(f, dir), creatable |-> FALSE]
    ELSE LET loc == Append(dir, Head(comps))
             rest == Tail(comps)
             node == NodeAt(f, loc)
         IN  CASE node.t = "none" ->
                    [err |-> "ENOENT", loc |-> loc, node |-> node,
                     creatable |-> rest = <<>> /\ loc \in FsPaths]
               [] node.t = "dir" -> Walk(f, loc, rest, follow, hops)
               [] node.t = "file" ->
                    IF rest = <<>>
                    THEN [err |-> "ok", loc |-> loc, node |-> node, creatable |-> FALSE]
                    ELSE [err |-> "ENOTDIR", loc |-> loc, node |-> node, creatable |-> FALSE]
               [] OTHER ->
                    IF rest = <<>> /\ ~follow
                    THEN [err |-> "ok", loc |-> loc, node |-> node, creatable |-> FALSE]
                    ELSE IF hops >= HopLimit
                    THEN [err |-> "ELOOP", loc |-> loc, node |-> node, creatable |-> FALSE]
                    ELSE IF node.target = EmptyPath
                    THEN [err |-> "ENOENT", loc |-> loc, node |-> node, creatable |-> FALSE]
                    ELSE Walk(f, IF node.target.abs THEN <<>> ELSE dir,
                              node.target.comps \o rest, follow, hops + 1)

\* stat (follow) and lstat (~follow) of a path; the empty path names nothing.
Stat(f, p, follow) ==
    IF p = EmptyPath
    THEN [err |-> "ENOENT", loc |-> <<>>, node |-> NoneNode, creatable |-> FALSE]
    ELSE Walk(f, <<>>, p.comps, follow, 0)

\* Path::exists, Path::is_dir, Path::is_file: all follow symlinks
exists(f, p) == Stat(f, p, TRUE).err = "ok"

path_is_dir(f, p) == Stat(f, p, TRUE).err = "ok" /\ Stat(f, p, TRUE).node.t = "dir"

path_is_file(f, p) == Stat(f, p, TRUE).err = "ok" /\ Stat(f, p, TRUE).node.t = "file"

Children(f, loc) == { q \in FsPaths : q # <<>> /\ Front(q) = loc /\ f[q].t # "none" }

IoOk(f) == [fs |-> f, err |-> "ok"]

IoErr(f, e) == [fs |-> f, err |-> e]

\* mkdir(2)
mkdir(f, p) ==
    LET s == Stat(f, p, FALSE)
    IN  IF s.err = "ok" THEN IoErr(f, "EEXIST")
        ELSE IF s.creatable THEN IoOk([f EXCEPT ![s.loc] = DirNode])
        ELSE IoErr(f, s.err)

RECURSIVE create_dir_all(_, _)

\* fs::create_dir_all
create_dir_all(f, p) ==
    IF p = EmptyPath THEN IoOk(f)
    ELSE LET m == mkdir(f, p)
         IN  IF m.err = "ok" THEN m
             ELSE IF m.err # "ENOENT"
             THEN IF path_is_dir(f, p) THEN IoOk(f) ELSE m
             ELSE IF parent(p) = <<>> THEN IoErr(f, "Other")
             ELSE LET up == create_dir_all(f, parent(p)[1])
                  IN  IF up.err # "ok" THEN up
                      ELSE LET m2 == mkdir(up.fs, p)
                           IN  IF m2.err = "ok" THEN m2
                               ELSE IF path_is_dir(up.fs, p) THEN IoOk(up.fs)
                               ELSE m2

\* fs::remove_dir: rmdir(2), on the path itself
remove_dir(f, p) ==
    LET s == Stat(f, p, FALSE)
    IN  IF s.err # "ok" THEN IoErr(f, s.err)
        ELSE IF s.node.t # "dir" THEN IoErr(f, "ENOTDIR")
        ELSE IF s.loc = <<>> THEN IoErr(f, "EBUSY")
        ELSE IF Children(f, s.loc) # {} THEN IoErr(f, "ENOTEMPTY")
        ELSE IoOk([f EXCEPT ![s.loc] = NoneNode])

\* fs::remove_file: unlink(2), on the path itself
remove_file(f, p) ==
    LET s == Stat(f, p, FALSE)
    IN  IF s.err # "ok" THEN IoErr(f, s.err)
        ELSE IF s.node.t = "dir" THEN IoErr(f, "EISDIR")
        ELSE IoOk([f EXCEPT ![s.loc] = NoneNode])

\* fs::File::create: open for writing, create or truncate, symlinks followed;
\* at names the opened file
File_create(f, p) ==
    LET s == Stat(f, p, TRUE)
    IN  IF s.err = "ok"
        THEN IF s.node.t = "dir"
             THEN [fs |-> f, err |-> "EISDIR", at |-> s.loc]
             ELSE [fs |-> [f EXCEPT ![s.loc].data = <<>>], err |-> "ok", at |-> s.loc]
        ELSE IF s.creatable
        THEN [fs |-> [f EXCEPT ![s.loc] = FileNode(<<>>, TRUE)], err |-> "ok", at |-> s.loc]
        ELSE [fs |-> f, err |-> s.err, at |-> s.loc]

\* Write::write_all on the opened file
write_all(f, loc, bytes) == IoOk([f EXCEPT ![loc].data = bytes])

\* os::unix::fs::symlink: symlink(2)
symlink(f, tg, p) ==
    LET s == Stat(f, p, FALSE)
    IN  IF s.err = "ok" THEN IoErr(f, "EEXIST")
        ELSE IF s.creatable THEN IoOk([f EXCEPT ![s.loc] = LinkNode(tg)])
        ELSE IoErr(f, s.err)

\* fs::File::open: open for reading, symlinks followed
File_open(f, p) ==
    LET s == Stat(f, p, TRUE)
    IN  IF s.err # "ok" THEN [err |-> s.err, data |-> <<>>]
        ELSE IF ~s.node.readable THEN [err |-> "EACCES", data |-> <<>>]
        ELSE [err |-> "ok", data |-> s.node.data]

\* fs::read_link
read_link(f, p) ==
    LET s == Stat(f, p, FALSE)
    IN  IF s.err # "ok" THEN [err |-> s.err, target |-> EmptyPath]
        ELSE IF s.node.t # "link" THEN [err |-> "EINVAL", target |-> EmptyPath]
        ELSE [err |-> "ok", target |-> s.node.target]

\* Every target system: a tree in which only directories have children.
Nodes ==
    { NoneNode, DirNode, FileNode(Hello, TRUE), FileNode(Hello, FALSE) }
        \cup { LinkNode(tg) : tg \in Targets }

AllFs ==
    { f \in [FsPaths -> Nodes] :
        /\ f[<<>>] = DirNode
        /\ \A q \in FsPaths : (q # <<>> /\ f[q].t # "none") => f[Front(q)].t = "dir" }

-----------------------------------------------------------------------------
(* Errors: error::Error, as its layers, the root cause first *)

PathSubject(p) == [what |-> "path", path |-> p, sha1 |-> <<>>, target |-> <<>>]

\* An io::Error of the call on path p, chained with the message msg.
chain_err(code, msg, p) ==
    << [msg |-> code, subject |-> PathSubject(p)], [msg |-> msg, subject |-> PathSubject(p)] >>

\* A with_context that returns the error as it is, with no context layer.
with_context_Bare(e, msg, r) == e

\* ResultExt::with_context: one more layer, naming the resource r.
with_context(e, msg, r) == Append(e, [msg |-> msg, subject |-> File_fmt(r)])

-----------------------------------------------------------------------------
(* The File resource: fs.rs, File::realize and File::verify *)

Done(f) == [fs |-> f, err |-> <<>>]

Failed(f, code, msg, p) == [fs |-> f, err |-> chain_err(code, msg, p)]

realize_Absent(r, f) ==
    LET d == IF path_is_dir(f, r.path) THEN remove_dir(f, r.path) ELSE IoOk(f)
    IN  IF d.err # "ok" THEN Failed(d.fs, d.err, "Failed to delete directory", r.path)
        ELSE LET u == IF path_is_file(d.fs, r.path) THEN remove_file(d.fs, r.path)
                      ELSE IoOk(d.fs)
             IN  IF u.err # "ok" THEN Failed(u.fs, u.err, "Failed to delete file", r.path)
                 ELSE Done(u.fs)

\* A realize that creates or truncates the file and writes nothing.
realize_File_CreateOnly(r, f) ==
    IF r.file_type.contents # <<>>
    THEN LET c == File_create(f, r.path)
         IN  IF c.err # "ok" THEN Failed(c.fs, c.err, "Failed to create file", r.path)
             ELSE Done(c.fs)
    ELSE Done(f)

realize_File(r, f) ==
    IF r.file_type.contents # <<>>
    THEN LET c == File_create(f, r.path)
         IN  IF c.err # "ok" THEN Failed(c.fs, c.err, "Failed to create file", r.path)
             ELSE LET w == write_all(c.fs, c.at, r.file_type.contents[1])
                  IN  IF w.err # "ok"
                      THEN Failed(w.fs, w.err, "Failed to write to file", r.path)
                      ELSE Done(w.fs)
    ELSE Done(f)

realize_Dir(r, f) ==
    LET c == create_dir_all(f, r.path)
    IN  IF c.err # "ok" THEN Failed(c.fs, c.err, "Failed to create directory", r.path)
        ELSE Done(c.fs)

realize_Symlink(r, f) ==
    LET c == symlink(f, r.file_type.target, r.path)
    IN  IF c.err # "ok" THEN Failed(c.fs, c.err, "Failed to create symlink", r.path)
        ELSE Done(c.fs)

\* File::realize on the target system f: the target system after, and the
\* error (no layers: Ok).
File_realize(r, f) ==
    CASE r.file_type.tag = "Absent" -> realize_Absent(r, f)
      [] r.file_type.tag = "File" -> realize_File(r, f)
      [] r.file_type.tag = "Dir" -> realize_Dir(r, f)
      [] OTHER -> realize_Symlink(r, f)

VTrue == [val |-> "true", err |-> <<>>]

VFalse == [val |-> "false", err |-> <<>>]

VErr(code, msg, p) == [val |-> "err", err |-> chain_err(code, msg, p)]

verify_File(r, f, metadata) ==
    IF metadata.node.t # "file" THEN VFalse
    ELSE IF r.file_type.contents # <<>>
    THEN LET o == File_open(f, r.path)
         IN  IF o.err # "ok" THEN VErr(o.err, "Failed to open file for hashing", r.path)
             ELSE IF sha1(o.data) # sha1(r.file_type.contents[1]) THEN VFalse
             ELSE VTrue
    ELSE VTrue

verify_Dir(r, f, metadata) == IF metadata.node.t # "dir" THEN VFalse ELSE VTrue

verify_Symlink(r, f, metadata) ==
    IF metadata.node.t # "link" THEN VFalse
    ELSE LET l == read_link(f, r.path)
         IN  IF l.err # "ok" THEN VErr(l.err, "Failed to read link target", r.path)
             ELSE IF l.target # r.file_type.target THEN VFalse
             ELSE VTrue

\* File::verify on the target system f: Ok(true), Ok(false) or Err.
File_verify(r, f) ==
    IF ~exists(f, r.path) THEN VFalse
    ELSE LET metadata == Stat(f, r.path, TRUE)
         IN  IF metadata.err # "ok"
             THEN VErr(metadata.err, "Failed to gather metadata about path", r.path)
             ELSE CASE r.file_type.tag = "File" -> verify_File(r, f, metadata)
                    [] r.file_type.tag = "Dir" -> verify_Dir(r, f, metadata)
                    [] r.file_type.tag = "Symlink" -> verify_Symlink(r, f, metadata)
                    [] OTHER -> VTrue

-----------------------------------------------------------------------------
(* The aggregator as a Resource: meta.rs, Reality::realize and Reality::verify *)

\* The value of the one element of S, computed once.
The(S) == CHOOSE x \in S : TRUE

RECURSIVE RealizeFrom(_, _, _)

\* A realize loop that goes on after a failure and reports the first error.
AfterMember_Continue(rs, i, m) ==
    LET rest == RealizeFrom(rs, m.fs, i + 1)
    IN  [fs |-> rest.fs,
         err |-> IF m.err # <<>>
                 THEN with_context(m.err, "Could not realize", rs[i].res)
                 ELSE rest.err,
         log |-> <<i>> \o rest.log]

\* resource.realize(ctx).with_context(..)?: member i's realize() returned m, the
\* target system it left and its error. An error returns at once; otherwise
\* the loop goes on with the next member, on the target system m.fs.
AfterMember(rs, i, m) ==
    IF m.err # <<>>
    THEN [fs |-> m.fs,
          err |-> with_context(m.err, "Could not realize", rs[i].res),
          log |-> <<i>>]
    ELSE [RealizeFrom(rs, m.fs, i + 1) EXCEPT !.log = <<i>> \o @]

\* The loop of Reality::realize from member i on: the target system after, the
\* error, and the members whose realize() was invoked.
RealizeFrom(rs, f, i) ==
    IF i > Len(rs) THEN [fs |-> f, err |-> <<>>, log |-> <<>>]
    ELSE AfterMember(rs, i, The({ File_realize(rs[i].res, f) }))

Reality_realize(rs, f) == RealizeFrom(rs, f, 1)

RECURSIVE VerifyFrom_CheckAll(_, _, _)

\* A verify loop that checks every member before it answers.
VerifyFrom_CheckAll(rs, f, i) ==
    IF i > Len(rs) THEN [val |-> "true", err |-> <<>>, log |-> <<>>]
    ELSE LET m == File_verify(rs[i].res, f)
             rest == VerifyFrom_CheckAll(rs, f, i + 1)
         IN  IF m.val = "err"
             THEN [val |-> "err",
                   err |-> with_context(m.err, "Could not verify", rs[i].res),
                   log |-> <<i>>]
             ELSE [val |-> IF m.val = "false" THEN "false" ELSE rest.val,
                   err |-> IF m.val = "false" THEN <<>> ELSE rest.err,
                   log |-> <<i>> \o rest.log]

RECURSIVE VerifyFrom(_, _, _)

\* The loop of Reality::verify from member i on: the result, the error, and
\* the members whose verify() was invoked.
VerifyFrom(rs, f, i) ==
    IF i > Len(rs) THEN [val |-> "true", err |-> <<>>, log |-> <<>>]
    ELSE LET m == File_verify(rs[i].res, f)
         IN  IF m.val = "err"
             THEN [val |-> "err",
                   err |-> with_context(m.err, "Could not verify", rs[i].res),
                   log |-> <<i>>]
             ELSE IF m.val = "false"
             THEN [val |-> "false", err |-> <<>>, log |-> <<i>>]
             ELSE LET rest == VerifyFrom(rs, f, i + 1)
                  IN  [rest EXCEPT !.log = <<i>> \o @]

Reality_verify(rs, f) == VerifyFrom(rs, f, 1)

-----------------------------------------------------------------------------
(* The orchestrator: lib.rs, apply_inner *)

NoResult == [val |-> "none", err |-> <<>>]

\* An orchestrator that realizes whatever verify returned.
AfterVerify_Always(v) == "realize"

\* An orchestrator that takes an error of verify() for "not realized".
AfterVerify_ErrAsFalse(v) == IF v.val = "true" THEN "done" ELSE "realize"

\* if resource.verify(&context)? { nothing to do } else { realize }: where
\* apply_inner goes after verify returned v (an error returns at once).
AfterVerify(v) == IF v.val = "false" THEN "realize" ELSE "done"

\* The error apply_inner returns to apply: the `?` after verify() and after
\* realize() hand the aggregator's error on as it is; no layers: Ok(()).
apply_inner_err ==
    IF vres.val = "err" THEN vres.err
    ELSE IF rres.val = "err" THEN rres.err
    ELSE <<>>

\* config(&mut resource): the configuration procedure declares a File.
Declare ==
    /\ pc = "config"
    /\ \E r \in ApplyFiles : DoEnsure(r, MaxDecl)
    /\ UNCHANGED <<fs, pc, runVars, fileVars>>

\* The configuration procedure returns.
ConfigReturns ==
    /\ pc = "config"
    /\ pc' = "verify"
    /\ calls' = Append(calls, "config")
    /\ UNCHANGED <<aggVars, fs, run, vlog, rlog, vres, rres, fsStart, fileVars>>

\* A verify step that repairs the member it finds not realized.
Verify_Repairing ==
    /\ pc = "verify"
    /\ \E v \in { Reality_verify(resources, fs) } :
          /\ vres' = [val |-> v.val, err |-> v.err]
          /\ vlog' = v.log
          /\ pc' = AfterVerify(v)
          /\ fs' = IF v.val = "false"
                   THEN File_realize(resources[v.log[Len(v.log)]].res, fs).fs
                   ELSE fs
    /\ calls' = Append(calls, "verify")
    /\ UNCHANGED <<aggVars, run, rlog, rres, fsStart, fileVars>>

\* resource.verify(&context)?
Verify ==
    /\ pc = "verify"
    /\ LET v == Reality_verify(resources, fs)
       IN  /\ vres' = [val |-> v.val, err |-> v.err]
           /\ vlog' = v.log
           /\ pc' = AfterVerify(v)
    /\ calls' = Append(calls, "verify")
    /\ UNCHANGED <<aggVars, fs, run, rlog, rres, fsStart, fileVars>>

\* resource.realize(&context)?
Realize ==
    /\ pc = "realize"
    /\ \E m \in { Reality_realize(resources, fs) } :
           /\ fs' = m.fs
           /\ rres' = [val |-> IF m.err = <<>> THEN "ok" ELSE "err", err |-> m.err]
           /\ rlog' = m.log
    /\ pc' = "done"
    /\ calls' = Append(calls, "realize")
    /\ UNCHANGED <<aggVars, run, vlog, vres, fsStart, fileVars>>

\* apply is run again with the same configuration procedure, which builds an
\* equal aggregator.
Rerun ==
    /\ pc = "done"
    /\ run = 1
    /\ run' = 2
    /\ pc' = "verify"
    /\ calls' = <<"config">>
    /\ vlog' = <<>>
    /\ rlog' = <<>>
    /\ vres' = NoResult
    /\ rres' = NoResult
    /\ fsStart' = fs
    /\ UNCHANGED <<aggVars, fs, fileVars>>

-----------------------------------------------------------------------------
(* A File driven directly *)

\* The operations remembered after one more.
Push(h, e) == IF Len(h) < HistLen THEN Append(h, e) ELSE Append(Tail(h), e)

\* file.verify(ctx)
FileVerify ==
    /\ pc = "file"
    /\ hist' = Push(hist, [op |-> "verify", file |-> file,
                           val |-> File_verify(file, fs).val])
    /\ UNCHANGED <<aggVars, fs, pc, runVars, file>>

\* file.realize(ctx)
FileRealize ==
    /\ pc = "file"
    /\ LET m == File_realize(file, fs)
       IN  /\ fs' = m.fs
           /\ hist' = Push(hist, [op |-> "realize", file |-> file,
                                  val |-> IF m.err = <<>> THEN "ok" ELSE "err"])
    /\ UNCHANGED <<aggVars, pc, runVars, file>>

\* The declared contents change: File::at(path).contains(c)
Redeclare ==
    /\ pc = "file"
    /\ file.file_type.tag = "File"
    /\ file.file_type.contents # <<>>
    /\ \E c \in Contents \ {file.file_type.contents[1]} :
          /\ file' = contains(at(file.path), c)
          /\ hist' = Push(hist, [op |-> "declare", file |-> file', val |-> "ok"])
    /\ UNCHANGED <<aggVars, fs, pc, runVars>>

-----------------------------------------------------------------------------
(* Specifications *)

EmptyFs == [p \in FsPaths |-> IF p = <<>> THEN DirNode ELSE NoneNode]

InitAgg ==
    /\ resources = <<>>
    /\ lastEnsure = NoEnsure
    /\ nEnsure = 0
    /\ fs = EmptyFs
    /\ pc = "config"
    /\ run = 1
    /\ calls = <<>>
    /\ vlog = <<>>
    /\ rlog = <<>>
    /\ vres = NoResult
    /\ rres = NoResult
    /\ fsStart = EmptyFs
    /\ file = NoFile
    /\ hist = <<>>

NextAgg == Ensure

\* Declaration only: any sequence of ensure calls on an empty aggregator.
SpecAgg == InitAgg /\ [][NextAgg]_vars

NextKinds == EnsureAny

\* Declaration only, of resources of two types that share their keys.
SpecKinds == InitAgg /\ [][NextKinds]_vars

InitApply ==
    /\ resources = <<>>
    /\ lastEnsure = NoEnsure
    /\ nEnsure = 0
    /\ fs \in AllFs
    /\ pc = "config"
    /\ run = 1
    /\ calls = <<>>
    /\ vlog = <<>>
    /\ rlog = <<>>
    /\ vres = NoResult
    /\ rres = NoResult
    /\ fsStart = fs
    /\ file = NoFile
    /\ hist = <<>>

NextApply == Declare \/ ConfigReturns \/ Verify \/ Realize \/ Rerun

\* apply, run twice with the same configuration on any target system.
Spec == InitApply /\ [][NextApply]_vars

InitFile ==
    /\ resources = <<>>
    /\ lastEnsure = NoEnsure
    /\ nEnsure = 0
    /\ fs \in AllFs
    /\ pc = "file"
    /\ run = 1
    /\ calls = <<>>
    /\ vlog = <<>>
    /\ rlog = <<>>
    /\ vres = NoResult
    /\ rres = NoResult
    /\ fsStart = fs
    /\ file \in FilesAt(FilePaths)
    /\ hist = <<>>

NextFile == FileVerify \/ FileRealize \/ Redeclare

\* One File of any declaration, verified and realized on any target system.
SpecFile == InitFile /\ [][NextFile]_vars

-----------------------------------------------------------------------------
(* Claims about the aggregator *)

IdOf(r) == <<TypeIdOf(r), File_key(r)>>

\* C1: after any sequence of ensure calls, recursive prerequisite calls
\* included, the aggregator holds at most one entry per identity (kind, key).
C1_OnePerIdentity ==
    \A i, j \in 1..Len(resources) : resources[i].id = resources[j].id => i = j

\* C1 witness: an ensure call met an identity that was already stored.
C1_Witness ==
    /\ lastEnsure.called
    /\ EntryIndex(lastEnsure.before, IdOf(lastEnsure.arg)) # 0
    /\ Len(resources) >= 3

\* The last ensure call redeclared a stored identity with an unequal value.
Conflict ==
    /\ lastEnsure.called
    /\ EntryIndex(lastEnsure.before, IdOf(lastEnsure.arg)) # 0
    /\ lastEnsure.before[EntryIndex(lastEnsure.before, IdOf(lastEnsure.arg))].res
         # lastEnsure.arg

\* The first value stays where it was and the new value is stored nowhere.
FirstWins ==
    LET i == EntryIndex(lastEnsure.before, IdOf(lastEnsure.arg))
    IN  /\ i <= Len(resources)
        /\ resources[i] = lastEnsure.before[i]
        /\ \A j \in 1..Len(resources) : resources[j].res # lastEnsure.arg

\* Diagnostics of the last call that are about the identity it declared.
OwnDiag ==
    { k \in 1..Len(lastEnsure.diag) : lastEnsure.diag[k].key = File_key(lastEnsure.arg) }

\* C2 as stated: a conflicting ensure(B) keeps A, never stores B, and the call
\* emits exactly one duplicate-declaration diagnostic.
C2_Original == Conflict => (FirstWins /\ Len(lastEnsure.diag) = 1)

\* C2 amended: a conflicting ensure(B) keeps A where it was, never stores B,
\* and emits exactly one duplicate-declaration diagnostic for that identity,
\* carrying the descriptions of A and B; the prerequisite calls it makes may
\* emit further diagnostics for their own identities.
C2_ConflictPolicy ==
    Conflict =>
        /\ FirstWins
        /\ Cardinality(OwnDiag) = 1
        /\ \A k \in OwnDiag :
              /\ lastEnsure.diag[k].new = File_fmt(lastEnsure.arg)
              /\ lastEnsure.diag[k].old =
                    File_fmt(lastEnsure.before[EntryIndex(lastEnsure.before,
                                                          IdOf(lastEnsure.arg))].res)

\* C2 witness: a conflicting call whose prerequisite conflicted as well.
C2_Witness == Conflict /\ Len(lastEnsure.diag) = 2

\* C3: every stored resource with an implicit prerequisite (a File whose path
\* has a parent) has an entry with the parent path's identity at a strictly
\* earlier iteration position; holding for every entry, it holds up the chain.
C3_PrerequisiteFirst ==
    \A i \in 1..Len(resources) :
        parent(resources[i].res.path) # <<>> =>
            \E j \in 1..(i - 1) :
                resources[j].id = <<"File", [variant |-> "Path",
                                            path |-> parent(resources[i].res.path)[1]]>>

\* C3 witness: a three-level path is stored behind its whole chain.
C3_Witness ==
    \E i \in 1..Len(resources) :
        /\ Len(resources[i].res.path.comps) = 3
        /\ i >= 4
        /\ nEnsure >= 2

\* The last call was the only call, and declared a path three levels deep.
SingleDeepEnsure ==
    /\ lastEnsure.called
    /\ nEnsure = 1
    /\ Len(lastEnsure.arg.path.comps) = 3

Prefix(p, n) == [p EXCEPT !.comps = SubSeq(p.comps, 1, n)]

KeysOf(rs) == [i \in 1..Len(rs) |-> rs[i].id[2].path]

\* C4 as stated: one ensure of a/b/c on an empty aggregator yields exactly
\* three entries, in the order a, a/b, a/b/c.
C4_Original ==
    SingleDeepEnsure =>
        KeysOf(resources) = << Prefix(lastEnsure.arg.path, 1),
                               Prefix(lastEnsure.arg.path, 2),
                               lastEnsure.arg.path >>

\* C4 amended: one ensure of a/b/c on an empty aggregator yields exactly four
\* entries: the top of the chain (the empty path, or "/" for an absolute
\* path), then a, a/b, a/b/c, the first three as directories.
C4_NestedPrerequisites ==
    SingleDeepEnsure =>
        /\ KeysOf(resources) = << Prefix(lastEnsure.arg.path, 0),
                                  Prefix(lastEnsure.arg.path, 1),
                                  Prefix(lastEnsure.arg.path, 2),
                                  lastEnsure.arg.path >>
        /\ \A i \in 1..3 : resources[i].res.file_type = Dir
        /\ resources[4].res = lastEnsure.arg

\* C4 witness: the single deep declaration has been made.
C4_Witness == SingleDeepEnsure /\ Len(resources) = 4

\* Position of the entry stored at the identity of a File at path q.
ParentIndex(q) == EntryIndex(resources, IdOf(at(q)))

\* The paths above p, from its parent up to the top of the chain.
Ancestors(p) == { Prefix(p, k) : k \in 0..(Len(p.comps) - 1) }

\* The last call emitted the duplicate-declaration diagnostic of a directory
\* prerequisite at q that met the stored value s.
WarnedAbout(q, s) ==
    \E k \in 1..Len(lastEnsure.diag) :
        lastEnsure.diag[k] = [key |-> File_key(at(q)),
                              old |-> File_fmt(s),
                              new |-> File_fmt(is_dir(at(q)))]

\* C21 as stated: for every stored File whose path has a parent, the value
\* stored at the parent path's identity is a directory declaration.
C21_Original ==
    \A i \in 1..Len(resources) :
        parent(resources[i].res.path) # <<>> =>
            /\ ParentIndex(parent(resources[i].res.path)[1]) # 0
            /\ resources[ParentIndex(parent(resources[i].res.path)[1])].res
                  = is_dir(at(parent(resources[i].res.path)[1]))

\* C21 amended: for every stored File whose path has a parent, the parent
\* path's identity is stored at an earlier position. An entry a call adds
\* there is the directory declaration; a value declared there before, of
\* whatever type, is kept (first wins), and a call that declares a File below
\* a path that holds a value other than the directory declaration emits
\* the duplicate-declaration diagnostic of that path.
C21_ParentIsPrerequisite ==
    lastEnsure.called =>
        /\ \A i \in 1..Len(resources) :
              parent(resources[i].res.path) # <<>> =>
                  LET q == parent(resources[i].res.path)[1]
                  IN  /\ ParentIndex(q) # 0
                      /\ ParentIndex(q) < i
                      /\ ParentIndex(q) > Len(lastEnsure.before) =>
                            resources[ParentIndex(q)].res = is_dir(at(q))
                      /\ ParentIndex(q) <= Len(lastEnsure.before) =>
                            resources[ParentIndex(q)] = lastEnsure.before[ParentIndex(q)]
        /\ \A q \in Ancestors(lastEnsure.arg.path) :
              /\ ParentIndex(q) # 0
              /\ resources[ParentIndex(q)].res # is_dir(at(q)) =>
                    WarnedAbout(q, resources[ParentIndex(q)].res)

\* C21 witness: a File was declared two levels below a path that holds a
\* value other than a directory; the call added the directory in between.
C21_Witness ==
    /\ lastEnsure.called
    /\ Len(lastEnsure.arg.path.comps) = 3
    /\ Len(resources) = Len(lastEnsure.before) + 2
    /\ \E q \in Ancestors(lastEnsure.arg.path) :
          /\ Len(q.comps) = 1
          /\ resources[ParentIndex(q)].res.file_type # Dir
    /\ lastEnsure.diag # <<>>

\* The last ensure call redeclared a stored identity with an equal value.
EqualRedeclaration ==
    /\ lastEnsure.called
    /\ EntryIndex(lastEnsure.before, IdOf(lastEnsure.arg)) # 0
    /\ lastEnsure.before[EntryIndex(lastEnsure.before, IdOf(lastEnsure.arg))].res
         = lastEnsure.arg

\* C11: an ensure(r) made when an equal value is stored at r's identity is a
\* no-op: the stored entries, their values and their order are as before the
\* call, whichever call of the sequence it is.
C11_IdempotentEnsure == EqualRedeclaration => resources = lastEnsure.before

\* C11 witness: an equal value was redeclared at an identity that is not the
\* last of at least three entries.
C11_Witness ==
    /\ EqualRedeclaration
    /\ Len(resources) >= 3
    /\ EntryIndex(lastEnsure.before, IdOf(lastEnsure.arg)) < Len(lastEnsure.before)
    /\ nEnsure >= 2

-----------------------------------------------------------------------------
(* Claims about the aggregator's realize and verify, and about apply *)

RECURSIVE Effects(_, _, _)

\* The target system after the realize() of the first k members, each run
\* on what the one before it left.
Effects(rs, f, k) ==
    IF k = 0 THEN f ELSE File_realize(rs[k].res, Effects(rs, f, k - 1)).fs

InOrder(log) == \A i \in 1..Len(log) : log[i] = i

Last(q) == q[Len(q)]

\* C5: Reality::realize invokes the members' realize() in insertion order,
\* each at most once; when a member fails no later member is invoked, what
\* the earlier members (and the failing one) did stays done, and the error
\* returned carries a context naming the failing member.
C5_FailFastRealize ==
    rres.val # "none" =>
        /\ InOrder(rlog)
        /\ Len(rlog) <= Len(resources)
        /\ \A i \in 1..(Len(rlog) - 1) :
              File_realize(resources[i].res, Effects(resources, fsStart, i - 1)).err = <<>>
        /\ fs = Effects(resources, fsStart, Len(rlog))
        /\ rres.val = "ok" =>
              /\ Len(rlog) = Len(resources)
              /\ \A i \in 1..Len(rlog) :
                    File_realize(resources[i].res,
                                 Effects(resources, fsStart, i - 1)).err = <<>>
        /\ rres.val = "err" =>
              /\ rlog # <<>>
              /\ File_realize(resources[Len(rlog)].res,
                              Effects(resources, fsStart, Len(rlog) - 1)).err # <<>>
              /\ Last(rres.err) = [msg |-> "Could not realize",
                                   subject |-> File_fmt(resources[Len(rlog)].res)]

\* C5 witness: a member in the middle failed after earlier members had
\* changed the target system.
C5_Witness ==
    /\ rres.val = "err"
    /\ Len(rlog) >= 2
    /\ Len(rlog) < Len(resources)
    /\ fs # fsStart

\* C6: Reality::verify checks the members in insertion order, returns false
\* at the first member whose verify() returns false without checking a later
\* one, and returns true only if every member's verify() returned true.
C6_ShortCircuitVerify ==
    vres.val # "none" =>
        /\ InOrder(vlog)
        /\ Len(vlog) <= Len(resources)
        /\ \A i \in 1..(Len(vlog) - 1) : File_verify(resources[i].res, fsStart).val = "true"
        /\ vres.val = "false" =>
              /\ vlog # <<>>
              /\ File_verify(resources[Len(vlog)].res, fsStart).val = "false"
        /\ vres.val = "true" =>
              /\ Len(vlog) = Len(resources)
              /\ \A i \in 1..Len(resources) :
                    File_verify(resources[i].res, fsStart).val = "true"

\* C6 witness: the first of at least three members verified false, and the
\* others were not checked.
C6_Witness ==
    /\ vres.val = "false"
    /\ vlog = <<1>>
    /\ Len(resources) >= 3

\* C7: in one apply run the configuration procedure runs once, then verify()
\* once; realize() runs at most once and only after verify() returned
\* false; when verify() returned true no member is realized; verify() is not
\* called again after realize().
C7_ApplyOrchestration ==
    /\ pc = "config" => calls = <<>>
    /\ pc = "verify" => calls = <<"config">>
    /\ pc = "realize" => (calls = <<"config", "verify">> /\ vres.val = "false")
    /\ pc = "done" =>
          calls = IF vres.val = "false"
                  THEN <<"config", "verify", "realize">>
                  ELSE <<"config", "verify">>
    /\ vres.val # "false" => (rres.val = "none" /\ rlog = <<>> /\ fs = fsStart)

\* C7 witness: a run over at least two members ended with nothing to do.
C7_Witness ==
    /\ pc = "done"
    /\ vres.val = "true"
    /\ Len(resources) >= 2

\* s is an initial part of t.
IsPrefix(s, t) == Len(s) <= Len(t) /\ SubSeq(t, 1, Len(s)) = s

\* C12: iteration order is insertion order: an ensure call leaves every stored
\* entry where it was, with its value, and puts the newly registered
\* identities after all of them; verify() and realize() visit the members in
\* exactly that order, realize() acting member by member on the target system.
C12_InsertionOrder ==
    /\ lastEnsure.called =>
          /\ IsPrefix(lastEnsure.before, resources)
          /\ \A i \in (Len(lastEnsure.before) + 1)..Len(resources) :
                EntryIndex(lastEnsure.before, resources[i].id) = 0
    /\ vres.val # "none" =>
          /\ InOrder(vlog)
          /\ \A i \in 1..(Len(vlog) - 1) :
                File_verify(resources[i].res, fsStart).val = "true"
    /\ rres.val # "none" =>
          /\ InOrder(rlog)
          /\ fs = Effects(resources, fsStart, Len(rlog))

\* C12 witness: a second declaration added entries behind the stored ones,
\* and verify() and realize() each visited more than one member.
C12_Witness ==
    /\ pc = "done"
    /\ lastEnsure.called
    /\ lastEnsure.before # <<>>
    /\ Len(resources) > Len(lastEnsure.before)
    /\ Len(vlog) >= 2
    /\ Len(rlog) >= 3
    /\ fs # fsStart

\* The last ensure call declared a resource whose key was stored for a
\* resource of another kind only.
SharedKey ==
    /\ lastEnsure.called
    /\ \E i \in 1..Len(lastEnsure.before) :
          /\ lastEnsure.before[i].res.path = lastEnsure.arg.path
          /\ lastEnsure.before[i].res.kind # lastEnsure.arg.kind
    /\ \A i \in 1..Len(lastEnsure.before) :
          lastEnsure.before[i].res.path = lastEnsure.arg.path =>
              lastEnsure.before[i].res.kind # lastEnsure.arg.kind

\* C17: two resources of different kinds with the same Key do not collide:
\* the second is stored as a new last entry, the first stays stored where it
\* was, and the call emits no conflict diagnostic for that key.
C17_KindsDoNotCollide ==
    SharedKey =>
        /\ IsPrefix(lastEnsure.before, resources)
        /\ resources # <<>>
        /\ Last(resources).res = lastEnsure.arg
        /\ Cardinality({ i \in 1..Len(resources) :
                            resources[i].res.path = lastEnsure.arg.path }) = 2
        /\ OwnDiag = {}

\* C17 witness: a File was declared at the key of a stored resource of the
\* other kind, and both are stored.
C17_Witness ==
    /\ SharedKey
    /\ lastEnsure.arg.kind = "File"
    /\ Len(lastEnsure.arg.path.comps) = 2
    /\ Len(resources) >= 4

\* C18: verify() is read-only: the step in which the aggregator's verify()
\* runs, and with it File::verify of the members it checks, changes neither
\* the target system nor the aggregator's entries, whatever it returns.
C18_VerifyReadOnly ==
    [][calls' = Append(calls, "verify") => (fs' = fs /\ resources' = resources)]_vars

\* C18 witness: verify() has just returned false after checking more than one
\* member of the first run.
C18_Witness ==
    /\ run = 1
    /\ calls = <<"config", "verify">>
    /\ vres.val = "false"
    /\ Len(vlog) >= 2

\* C19: an operational error from a member's verify() is fatal to the run:
\* the aggregator's verify() returns that error, wrapped with the member's
\* description, without checking a later member; the orchestrator then never
\* calls realize(), and the run leaves the target system as it found it.
C19_VerifyErrorFatal ==
    vres.val = "err" =>
        /\ vlog # <<>>
        /\ InOrder(vlog)
        /\ Len(vlog) <= Len(resources)
        /\ \A i \in 1..(Len(vlog) - 1) :
              File_verify(resources[i].res, fsStart).val = "true"
        /\ File_verify(resources[Len(vlog)].res, fsStart).val = "err"
        /\ vres.err = Append(File_verify(resources[Len(vlog)].res, fsStart).err,
                             [msg |-> "Could not verify",
                              subject |-> File_fmt(resources[Len(vlog)].res)])
        /\ pc = "done"
        /\ calls = <<"config", "verify">>
        /\ rres = NoResult
        /\ rlog = <<>>
        /\ fs = fsStart

\* C19 witness: verify() of a member in the middle failed.
C19_Witness ==
    /\ vres.val = "err"
    /\ Len(vlog) >= 2
    /\ Len(vlog) < Len(resources)

\* C8: a second apply run with the same declarations, directly after a
\* first, produces no further change to the target system.
C8_IdempotentRun == (run = 2 /\ pc = "done") => fs = fsStart

\* The apply run has returned an error.
RunFailed == pc = "done" /\ apply_inner_err # <<>>

\* The member whose verify() or realize() failed, and the error it returned.
FailedMember == IF vres.val = "err" THEN Len(vlog) ELSE Len(rlog)

MemberErr ==
    IF vres.val = "err"
    THEN File_verify(resources[FailedMember].res, fsStart).err
    ELSE File_realize(resources[FailedMember].res,
                      Effects(resources, fsStart, FailedMember - 1)).err

\* The context layer the aggregator adds: it names the failing member.
AggregatorLayer ==
    [msg |-> IF vres.val = "err" THEN "Could not verify" ELSE "Could not realize",
     subject |-> File_fmt(resources[FailedMember].res)]

\* C16 as stated: the error of a failed run is the member's error wrapped by
\* the aggregator's layer naming the member, wrapped again by one further
\* layer of the orchestrator.
C16_Original ==
    RunFailed =>
        /\ Len(apply_inner_err) = Len(MemberErr) + 2
        /\ SubSeq(apply_inner_err, 1, Len(MemberErr)) = MemberErr
        /\ apply_inner_err[Len(MemberErr) + 1] = AggregatorLayer

\* C16 amended: the error of a failed run is the member's error wrapped by
\* exactly one layer, the aggregator's, naming the failing member; the
\* orchestrator adds no layer of its own.
C16_ErrorWrapping ==
    RunFailed =>
        /\ MemberErr # <<>>
        /\ apply_inner_err = Append(MemberErr, AggregatorLayer)

\* C16 witness: the second run failed in a member's realize().
C16_Witness ==
    /\ RunFailed
    /\ run = 2
    /\ rres.val = "err"
    /\ Len(apply_inner_err) = 3

\* The apply run has returned Ok(()).
RunOk == pc = "done" /\ vres.val # "err" /\ rres.val # "err"

\* C13: after an apply run that completed without error, the path of every
\* stored File::at(path) declaration (no further builder call) exists and is
\* a regular file.
C13_AtIsRegularFile ==
    RunOk =>
        \A i \in 1..Len(resources) :
            resources[i].res = at(resources[i].res.path) =>
                path_is_file(fs, resources[i].res.path)

\* C14: after an apply run that completed without error, the path of every
\* stored is_absent() declaration does not exist.
C14_AbsentIsDeleted ==
    RunOk =>
        \A i \in 1..Len(resources) :
            resources[i].res.file_type = Absent => ~exists(fs, resources[i].res.path)

\* C20: a single pass converges: after an apply run that completed without
\* error, the aggregator's verify() on the resulting target system returns
\* true.
C20_SinglePassConverges == RunOk => Reality_verify(resources, fs).val = "true"

InitTrip ==
    /\ resources = <<>>
    /\ lastEnsure = NoEnsure
    /\ nEnsure = 0
    /\ fs \in AllFs
    /\ pc = "file"
    /\ run = 1
    /\ calls = <<>>
    /\ vlog = <<>>
    /\ rlog = <<>>
    /\ vres = NoResult
    /\ rres = NoResult
    /\ fsStart = fs
    /\ file \in { contains(at(p), c) : p \in FilePaths, c \in Contents }
    /\ ~exists(fs, file.path)
    /\ hist = <<>>

\* A File with contents, declared at a path that does not exist yet.
SpecTrip == InitTrip /\ [][NextFile]_vars

-----------------------------------------------------------------------------
(* Claims about File::verify and File::realize *)

\* What is at the path is what the File declares: nothing at all; a regular
\* file (with exactly the declared bytes, if any are declared); a directory;
\* a symlink with the declared target.
Matches(r, f) ==
    CASE r.file_type.tag = "Absent" -> Stat(f, r.path, FALSE).err # "ok"
      [] r.file_type.tag = "File" ->
            /\ Stat(f, r.path, TRUE).err = "ok"
            /\ Stat(f, r.path, TRUE).node.t = "file"
            /\ r.file_type.contents # <<>> =>
                  Stat(f, r.path, TRUE).node.data = r.file_type.contents[1]
      [] r.file_type.tag = "Dir" ->
            /\ Stat(f, r.path, TRUE).err = "ok"
            /\ Stat(f, r.path, TRUE).node.t = "dir"
      [] OTHER ->
            /\ Stat(f, r.path, FALSE).err = "ok"
            /\ Stat(f, r.path, FALSE).node.t = "link"
            /\ Stat(f, r.path, FALSE).node.target = r.file_type.target

\* The i-th last remembered operation.
Back(i) == hist[Len(hist) - i]

\* C9: for every File declaration and every target system on which no
\* operational error occurs, File::verify returns true if and only if what
\* is at the path matches the declaration.
C9_VerifyIffMatches ==
    (hist # <<>> /\ Back(0).op = "verify" /\ Back(0).val # "err") =>
        (Back(0).val = "true" <=> Matches(file, fs))

\* C15: realize() is safe to re-invoke: on the target system a successful
\* realize() of a File declaration left, with no verify() in between, a
\* second realize() of the same declaration succeeds and changes nothing.
C15_RealizeReinvocable ==
    (hist # <<>> /\ Back(0).op = "realize" /\ Back(0).val = "ok") =>
        /\ File_realize(file, fs).err = <<>>
        /\ File_realize(file, fs).fs = fs

\* C10: round trip of a File with contents declared at a path that does not
\* exist: verify() returns false; after a realize() that succeeded the path
\* is a regular file with exactly the declared bytes and verify() returns
\* true; after the declared contents change verify() returns false, and it
\* returns true only once the path holds the newly declared bytes, as it
\* does after the new declaration's realize().
C10_RoundTrip ==
    /\ (hist # <<>> /\ Back(0).op = "verify" /\ ~exists(fs, file.path)) =>
          Back(0).val = "false"
    /\ (hist # <<>> /\ Back(0).op = "realize" /\ Back(0).val = "ok") =>
          Matches(file, fs)
    /\ (Len(hist) >= 2 /\ Back(1).op = "realize" /\ Back(1).val = "ok"
          /\ Back(0).op = "verify") =>
          Back(0).val = "true"
    /\ (Len(hist) >= 3 /\ Back(2).op = "realize" /\ Back(2).val = "ok"
          /\ Back(1).op = "declare" /\ Back(0).op = "verify") =>
          Back(0).val = "false"
    /\ (hist # <<>> /\ Back(0).op = "verify" /\ Back(0).val = "true") =>
          Matches(file, fs)

\* C10 witness: the contents were redeclared, verify() returned false,
\* realize() ran, and verify() returned true.
C10_Witness ==
    /\ Len(hist) = 4
    /\ Back(3).op = "declare"
    /\ Back(2).op = "verify" /\ Back(2).val = "false"
    /\ Back(1).op = "realize" /\ Back(1).val = "ok"
    /\ Back(0).op = "verify" /\ Back(0).val = "true"
    /\ file.file_type.contents = << Hello2 >>

====
